---- MODULE Spec2Model ----
(***************************************************************************)
(* A model of sushichef.py, the Funda Wande sushi chef: the resilient      *)
(* fetcher (make_request, download_page), the extractor (crawl), the       *)
(* transcode gate (download_and_compress_pdfs), pre_run and the tree       *)
(* assembler (construct_channel, get_subtopic_node).                       *)
(*                                                                         *)
(* Strings are sequences of tokens.  The separators " ", "_", "-", ":" and *)
(* "'" are always tokens of their own and every other token is a word that *)
(* contains none of them, so that the concatenation, the replacement of    *)
(* spaces, the split on a quote and the substring tests of the program are *)
(* computed on the tokens as Python computes them on the characters.       *)
(***************************************************************************)
EXTENDS Integers, Sequences, FiniteSets, TLC

----------------------------------------------------------------------------
(* Bounds of the model *)

\* longest listing page that the site serves
MaxLinks == 2

----------------------------------------------------------------------------
(* Program constants *)

COURSE_URL == <<"https://fundawande.org">>

\* SIZE_LIMIT = 15 * 1024 * 1024
SIZE_LIMIT == 15728640

max_retries == 5

\* no exception
None == "None"

\* Python's None as the value of an object reference
PyNone == [type |-> "NoneType"]

\* a local string variable that is not bound yet, and the failed index of a
\* list: token sequences that no string of a page equals
Unbound == <<"<unbound>">>
IndexError == <<"<IndexError>">>

----------------------------------------------------------------------------
(* Python's string operations on token sequences *)

Range(s) == {s[n] : n \in DOMAIN s}

\* s + t
Cat(s, t) == s \o t

\* w in s   (substring test)
Contains(s, w) ==
    \E n \in 1..(Len(s) - Len(w) + 1) : SubSeq(s, n, n + Len(w) - 1) = w

\* s.replace(a, b) for single characters a and b
Replace(s, a, b) == [n \in 1..Len(s) |-> IF s[n] = a THEN b ELSE s[n]]

RECURSIVE LStrip(_)
LStrip(s) == IF s # <<>> /\ Head(s) = " " THEN LStrip(Tail(s)) ELSE s

RECURSIVE RStrip(_)
RStrip(s) ==
    IF s # <<>> /\ s[Len(s)] = " " THEN RStrip(SubSeq(s, 1, Len(s) - 1)) ELSE s

\* s.strip()
Strip(s) == RStrip(LStrip(s))

\* the positions of the quote characters of s, in order
QuotePositions(s) == {n \in 1..Len(s) : s[n] = "'"}

\* s.split("'")[1]: the text between the first quote and the next one (or the
\* end of s); IndexError for a string without a quote
SplitQuoteSecond(s) ==
    LET q == QuotePositions(s) IN
    IF q = {} THEN IndexError
    ELSE LET first == CHOOSE n \in q : \A m \in q : n <= m
             rest == q \ {first}
             stop == IF rest = {} THEN Len(s) + 1
                     ELSE CHOOSE n \in rest : \A m \in rest : n <= m
         IN  SubSeq(s, first + 1, stop - 1)

\* url[-3:] != "mp4"; an extension is one token of three characters
NotMp4(url) == url = <<>> \/ url[Len(url)] # "mp4"

----------------------------------------------------------------------------
(* Python's dict: the keys in insertion order and the value of each key *)

EmptyDict == [keys |-> <<>>, val |-> <<>>]

Has(d, k) == k \in DOMAIN d.val

\* d[k] = v
DictSet(d, k, v) ==
    [keys |-> IF Has(d, k) THEN d.keys ELSE Append(d.keys, k),
     val  |-> (k :> v) @@ d.val]

----------------------------------------------------------------------------
(* The strings of the listing pages that the program tests for *)

ReadingForMeaning == <<"Reading", " ", "for", " ", "Meaning", " ", "Course">>
MathsWorkbooks == <<"Maths", " ", "Workbooks">>
Maths == <<"Maths">>
ExcludedWords == {<<"Covid">>, <<"Phonics">>, <<"Marksheets">>, <<"Strategy">>}
GradeMarker == <<"Grade">>
AllTerms == <<"All">>

----------------------------------------------------------------------------
(* A matched element of a listing page: its tag and its attributes.  An    *)
(* attribute that the markup lacks is a field that the record lacks.       *)

Anchor(href, label, cat1, cat2, cat3) ==
    [tag |-> "a", cat4 |-> "ENG", href |-> href, label |-> label,
     cat1 |-> cat1, cat2 |-> cat2, cat3 |-> cat3]

Button(onclick, label, cat1, cat2, cat3) ==
    [tag |-> "button", cat4 |-> "ENG", onclick |-> onclick, label |-> label,
     cat1 |-> cat1, cat2 |-> cat2, cat3 |-> cat3]

HasAttr(link, a) == a \in DOMAIN link

\* onclick="play('<path>')"
Play(path) == <<"play(", "'">> \o path \o <<"'", ")">>

\* page.find_all(element, {"data-cat4": "ENG"})
FindAll(page, element) ==
    SelectSeq(page, LAMBDA e : e.tag = element /\ HasAttr(e, "cat4") /\ e.cat4 = "ENG")

----------------------------------------------------------------------------
(* crawl: the body of the loop over the matched elements, lines 129-172.   *)
(* The state of the loop is st = [urls, level, topics, resources, error].  *)

\* the exceptions that nothing in the program catches
NoFindAll == "AttributeError: 'NoneType' object has no attribute 'find_all'"
NoStrip == "AttributeError: 'NoneType' object has no attribute 'strip'"
NoOnclick == "KeyError: 'onclick'"
NoQuote == "IndexError: list index out of range"
NoLevel == "UnboundLocalError: local variable 'level' referenced before assignment"
NoConnection == "requests.exceptions.ConnectionError"

\* sys.exit(1)
SystemExit1 == "SystemExit: 1"

\* an exception leaves crawl
Raise(st, exc) == [st EXCEPT !.error = exc]

\* lines 130-134: the url of the element, or the exception of a missing or
\* malformed onclick attribute
ResolveUrl(element, link) ==
    IF element = "a"
    THEN [error |-> None,
          url |-> Cat(COURSE_URL, IF HasAttr(link, "href") THEN link.href
                                  ELSE <<"None">>)]
    ELSE IF ~HasAttr(link, "onclick")
         THEN [error |-> NoOnclick, url |-> <<>>]
         ELSE IF SplitQuoteSecond(link.onclick) = IndexError
              THEN [error |-> NoQuote, url |-> <<>>]
              ELSE [error |-> None,
                    url |-> Cat(COURSE_URL, SplitQuoteSecond(link.onclick))]

\* a loop without the list of seen urls
SeenUrlNever(url, urls) == FALSE

\* line 138: url in urls
SeenUrl(url, urls) == url \in Range(urls)

\* lines 145-147: the level is put before the name of the videos of the
\* Reading for Meaning Course; level is the local variable of crawl
AdjustsName(element, topic) == topic = ReadingForMeaning /\ element # "a"

LevelName(level, name) == level \o <<":", " ">> \o name

\* a filter that leaves out the topics that are one of the words
ExcludedExact(topic) == topic \in ExcludedWords

\* lines 148-154
Excluded(topic) == \E w \in ExcludedWords : Contains(topic, w)

\* lines 155-156
Alias(topic) == IF topic = MathsWorkbooks THEN Maths ELSE topic

\* lines 159-160
MakeIdx(topic, level, term, name) ==
    Replace(topic \o <<"-">> \o level \o <<"-">> \o term \o <<"-">> \o name
                \o <<"_", "id">>,
            " ", "_")

\* lines 161-164
Register(tps, topic, idx) ==
    IF ~Has(tps, topic) THEN DictSet(tps, topic, <<idx>>)
    ELSE DictSet(tps, topic, Append(tps.val[topic], idx))

\* lines 165-172
Insert(res, idx, resource) == DictSet(res, idx, resource)

\* lines 157-172, once the element has passed the filters
Record(st, link, url, name, topic0) ==
    IF ~HasAttr(link, "cat2") THEN Raise(st, NoStrip)
    ELSE IF ~HasAttr(link, "cat3")
         THEN Raise([st EXCEPT !.level = Strip(link.cat2)], NoStrip)
         ELSE LET topic == Alias(topic0)
                  lvl == Strip(link.cat2)
                  term == Strip(link.cat3)
                  idx == MakeIdx(topic, lvl, term, name)
              IN  [st EXCEPT !.level = lvl,
                             !.topics = Register(@, topic, idx),
                             !.resources =
                                 Insert(@, idx, [name |-> name, topic |-> topic,
                                                 level |-> lvl, term |-> term,
                                                 url |-> url])]

\* lines 141-156
Describe(st, element, link, url) ==
    IF ~HasAttr(link, "label") \/ ~HasAttr(link, "cat1")
    THEN Raise(st, NoStrip)
    ELSE LET name == Strip(link.label)
             topic == Strip(link.cat1)
         IN  IF AdjustsName(element, topic) /\ st.level = Unbound
             THEN Raise(st, NoLevel)
             ELSE IF Excluded(topic) THEN st
                  ELSE Record(st, link, url,
                              IF AdjustsName(element, topic)
                              THEN LevelName(st.level, name) ELSE name,
                              topic)

\* lines 129-172: one iteration
ProcessLink(st, element, link) ==
    LET r == ResolveUrl(element, link) IN
    IF r.error # None THEN Raise(st, r.error)
    ELSE IF element # "a" /\ NotMp4(r.url) THEN st
    ELSE IF SeenUrl(r.url, st.urls) THEN st
    ELSE Describe([st EXCEPT !.urls = Append(@, r.url)], element, link, r.url)

----------------------------------------------------------------------------
(* The state of a run *)

VARIABLES
    site,            \* the site: its listing pages by section, its documents by url
    pc,              \* where the run is
    error,           \* the exception that ended the run, or None
    section,         \* the section that crawl is called with
    retry_count,     \* make_request: retry_count
    attempts,        \* make_request: the calls of SESSION.request so far
    slept,           \* make_request: the delays of time.sleep so far
    response,        \* make_request: response
    result,          \* what make_request returned to download_page
    links,           \* crawl: links
    li,              \* crawl: the position of the loop in links
    urls,            \* crawl: urls
    level,           \* crawl: level
    resources,       \* crawl: resources
    topics,          \* self.topics
    pdfs,            \* self.pdfs
    videos,          \* self.videos
    raw,             \* the files chefdata/<key>.pdf
    compressed,      \* the files chefdata/compressed/<key>.pdf
    gi,              \* download_and_compress_pdfs: the position in self.pdfs
    fetches,         \* probe: the calls of requests.get in this run
    transforms,      \* probe: the calls of doc.save in this run
    copies,          \* probe: the calls of shutil.copy2 in this run
    channel,         \* construct_channel: the children of the channel
    ti,              \* construct_channel: the position in self.topics
    ri,              \* construct_channel: the position in the topic's keys
    topic_node,      \* construct_channel: topic_node
    subtopics,       \* self.subtopics: level -> position among the children
    using_subtopics, \* self.using_subtopics
    used_resorces    \* construct_channel: used_resorces

requestvars == <<retry_count, attempts, slept, response, result>>
crawlvars == <<links, li, urls, level, resources>>
poolvars == <<topics, pdfs, videos>>
filevars == <<raw, compressed>>
gatevars == <<gi, fetches, transforms, copies>>
treevars == <<channel, ti, ri, topic_node, subtopics, using_subtopics,
              used_resorces>>
vars == <<site, pc, error, section, requestvars, crawlvars, poolvars,
          filevars, gatevars, treevars>>

\* pre_run, lines 210-211: the sections and the element that each is crawled for
Sections == <<"/learning-resources", "/video-resources">>
ElementOf(s) == IF s = 1 THEN "a" ELSE "button"

StatusCodes == {200, 404, 500}

----------------------------------------------------------------------------
(* make_request and download_page, lines 28-71 *)

\* lines 32-33 and the call of crawl for section s
CallCrawl(s) ==
    /\ section' = s
    /\ retry_count' = 0
    /\ attempts' = 0
    /\ slept' = <<>>
    /\ response' = PyNone
    /\ result' = PyNone
    /\ pc' = "request"

\* a loop that gives up one failure too late
ExhaustedLate(count) == count > max_retries

\* line 51
Exhausted(count) == count >= max_retries

\* line 50: time.sleep(retry_count * 1)
Delay(count) == count * 1

\* a status test that lets a 404 through
SuccessNot500(status) == status # 500

\* line 54
Success(status) == status = 200

\* lines 38-53: SESSION.request raises ConnectionError or ReadTimeout
RequestRaises ==
    /\ pc = "request"
    /\ attempts' = attempts + 1
    /\ retry_count' = retry_count + 1
    /\ slept' = Append(slept, Delay(retry_count'))
    /\ pc' = IF Exhausted(retry_count') THEN "fetched" ELSE "request"
    /\ UNCHANGED <<response, result>>
    /\ UNCHANGED <<site, error, section, crawlvars, poolvars, filevars,
                   gatevars, treevars>>

\* lines 38-39 and 54-57: SESSION.request returns a response
RequestResponds ==
    /\ pc = "request"
    /\ attempts' = attempts + 1
    /\ \E status \in StatusCodes :
          /\ response' = [type |-> "Response", status_code |-> status,
                          page |-> IF status = 200 THEN site.pages[section]
                                   ELSE <<>>]
          /\ result' = IF Success(status) THEN response' ELSE PyNone
    /\ pc' = "fetched"
    /\ UNCHANGED <<site, error, section, retry_count, slept, crawlvars,
                   poolvars, filevars, gatevars, treevars>>

----------------------------------------------------------------------------
(* crawl, lines 123-174, and pre_run, lines 208-212 *)

\* lines 65-71 and 125-128: download_page returns and crawl selects the links;
\* page is None when make_request returned None, and None has no find_all.
\* The locals of make_request and download_page end with the calls.
CrawlPage ==
    /\ pc = "fetched"
    /\ IF result = PyNone
       THEN /\ pc' = "crashed"
            /\ error' = NoFindAll
            /\ UNCHANGED crawlvars
       ELSE /\ pc' = "links"
            /\ links' = FindAll(result.page, ElementOf(section))
            /\ li' = 1
            /\ urls' = <<>>
            /\ level' = Unbound
            /\ resources' = EmptyDict
            /\ UNCHANGED error
    /\ retry_count' = 0
    /\ attempts' = 0
    /\ slept' = <<>>
    /\ response' = PyNone
    /\ result' = PyNone
    /\ UNCHANGED <<site, section, poolvars, filevars, gatevars, treevars>>

\* lines 129-172: one iteration of the loop over links
CrawlLink ==
    /\ pc = "links"
    /\ li <= Len(links)
    /\ LET st == ProcessLink([urls |-> urls, level |-> level, topics |-> topics,
                              resources |-> resources, error |-> None],
                             ElementOf(section), links[li])
       IN  IF st.error # None
           THEN /\ pc' = "crashed"
                /\ error' = st.error
                /\ UNCHANGED <<li, urls, level, resources, topics>>
           ELSE /\ li' = li + 1
                /\ urls' = st.urls
                /\ level' = st.level
                /\ resources' = st.resources
                /\ topics' = st.topics
                /\ UNCHANGED <<pc, error>>
    /\ UNCHANGED <<site, section, requestvars, links, pdfs, videos,
                   filevars, gatevars, treevars>>

\* line 174 and lines 210-212: crawl returns resources to pre_run
CrawlReturn ==
    /\ pc = "links"
    /\ li > Len(links)
    /\ IF section = 1
       THEN /\ pdfs' = resources
            /\ CallCrawl(2)
            /\ UNCHANGED <<videos, gi>>
       ELSE /\ videos' = resources
            /\ pc' = "gate"
            /\ gi' = 1
            /\ UNCHANGED <<pdfs, section, requestvars>>
    /\ UNCHANGED <<site, error, crawlvars, topics, filevars, fetches,
                   transforms, copies, treevars>>

----------------------------------------------------------------------------
(* download_and_compress_pdfs, lines 176-206 *)

\* what the server sends for a document: a pdf of some length, or the body of
\* an error page (requests.get does not look at the status code)
Pdf(n) == [body |-> "pdf", len |-> n]
ErrorPage == [body |-> "error page", len |-> 0]
Bodies == {Pdf(SIZE_LIMIT), Pdf(SIZE_LIMIT + 1), ErrorPage}

\* lines 185-188: pdf_file.content for a request that returns
Content(url) == IF url \in DOMAIN site.docs THEN site.docs[url] ELSE ErrorPage

\* a gate that does not look for its output
HasOutputNever(files, pdf) == FALSE

\* line 181: os.path.exists(compressed_pdf)
HasOutput(files, pdf) == Has(files, pdf)

\* line 183: os.path.exists(pdf_name)
HasRaw(files, pdf) == Has(files, pdf)

\* a gate that sends a file of the limit itself to the transform
OverLimitInclusive(file_size) == file_size >= SIZE_LIMIT

\* line 191
OverLimit(file_size) == file_size > SIZE_LIMIT

\* lines 193-201: the output of doc.save
Saved(file) == [file EXCEPT !.body = "compressed pdf"]

\* a handler that reports the failure and goes on to the tree
SaveFailureReported == [pc |-> "topics", error |-> None]

\* lines 202-204: doc.save raises ValueError; the message and sys.exit(1)
SaveFailure == [pc |-> "exited", error |-> SystemExit1]

\* a loop that ends after the first document
GateDoneEarly(i, keys) == i > Len(keys) \/ i > 1

\* line 178: the loop over self.pdfs has gone through all the keys
GateDone(i, keys) == i > Len(keys)

\* lines 178-206: one iteration of the loop over self.pdfs
GateStep ==
    /\ pc = "gate"
    /\ ~GateDone(gi, pdfs.keys)
    /\ LET pdf == pdfs.keys[gi] IN
       \/ \* line 181: the compressed file is there
          /\ HasOutput(compressed, pdf)
          /\ gi' = gi + 1
          /\ UNCHANGED <<pc, error, raw, compressed, fetches, transforms,
                         copies>>
       \/ \* line 186: requests.get raises
          /\ ~HasOutput(compressed, pdf)
          /\ ~HasRaw(raw, pdf)
          /\ fetches' = fetches + 1
          /\ pc' = "crashed"
          /\ error' = NoConnection
          /\ UNCHANGED <<gi, raw, compressed, transforms, copies>>
       \/ \* lines 183-206 with the raw file cached or fetched
          /\ ~HasOutput(compressed, pdf)
          /\ LET file == IF HasRaw(raw, pdf) THEN raw.val[pdf]
                          ELSE Content(pdfs.val[pdf].url)
             IN
               /\ fetches' = IF HasRaw(raw, pdf) THEN fetches ELSE fetches + 1
               /\ raw' = DictSet(raw, pdf, file)
               /\ IF OverLimit(file.len)
                  THEN /\ transforms' = transforms + 1
                       /\ UNCHANGED copies
                       /\ \/ \* doc.save returns
                             /\ compressed' =
                                    DictSet(compressed, pdf, Saved(file))
                             /\ gi' = gi + 1
                             /\ UNCHANGED <<pc, error>>
                          \/ \* lines 202-204: ValueError and sys.exit(1)
                             /\ pc' = SaveFailure.pc
                             /\ error' = SaveFailure.error
                             /\ UNCHANGED <<compressed, gi>>
                  ELSE \* line 206: shutil.copy2
                       /\ copies' = copies + 1
                       /\ compressed' = DictSet(compressed, pdf, file)
                       /\ gi' = gi + 1
                       /\ UNCHANGED <<pc, error, transforms>>
    /\ UNCHANGED <<site, section, requestvars, crawlvars, poolvars,
                   treevars>>

\* line 212 returns; the framework calls construct_channel, lines 232-233
GateReturn ==
    /\ pc = "gate"
    /\ GateDone(gi, pdfs.keys)
    /\ pc' = "topics"
    /\ channel' = <<>>
    /\ used_resorces' = <<>>
    /\ ti' = 1
    /\ UNCHANGED <<site, error, section, requestvars, crawlvars, poolvars,
                   filevars, gatevars, ri, topic_node, subtopics,
                   using_subtopics>>

----------------------------------------------------------------------------
(* construct_channel and get_subtopic_node, lines 214-301 *)

TopicNode(source_id, title) ==
    [kind |-> "TopicNode", source_id |-> source_id, title |-> title,
     children |-> <<>>]

\* a title without the term
DocumentTitlePlain(obj) == obj.name

\* lines 256-276
DocumentTitle(obj) ==
    (IF obj.term # AllTerms THEN obj.term \o <<" ", "-", " ">> ELSE <<>>)
        \o obj.name

DocumentNode(resource, obj) ==
    [kind |-> "DocumentNode", source_id |-> resource,
     title |-> DocumentTitle(obj),
     path |-> <<"chefdata/compressed/">> \o resource \o <<".pdf">>]

\* lines 278-297
VideoTitle(obj) == obj.name

VideoNode(resource, obj) ==
    [kind |-> "VideoNode", source_id |-> resource, title |-> VideoTitle(obj),
     path |-> obj.url]

\* a topic that is never split
UsingSubtopicsNever(keys) == FALSE

\* line 242: "Grade" in self.topics[topic][0]
UsingSubtopics(keys) == Contains(keys[1], GradeMarker)

\* line 215
HasGrade(obj) == Contains(obj.level, GradeMarker)

\* get_subtopic_node, lines 214-229: the topic node and self.subtopics after
\* the call, and where the returned node is: 0 for topic_node itself, else the
\* position of the subtopic node among its children
GetSubtopicNode(node, subs, using, obj) ==
    IF ~HasGrade(obj) THEN [node |-> node, subs |-> subs, at |-> 0]
    ELSE IF using
         THEN IF ~Has(subs, obj.level)
              THEN [node |-> [node EXCEPT !.children =
                                 Append(@, TopicNode(obj.level \o <<"_", "id">>,
                                                     obj.level))],
                    subs |-> DictSet(subs, obj.level, Len(node.children) + 1),
                    at |-> Len(node.children) + 1]
              ELSE [node |-> node, subs |-> subs, at |-> subs.val[obj.level]]
         ELSE [node |-> node, subs |-> subs, at |-> 0]

\* subtopic_node.add_child(leaf)
AddChild(node, at, leaf) ==
    IF at = 0 THEN [node EXCEPT !.children = Append(@, leaf)]
    ELSE [node EXCEPT !.children[at].children = Append(@, leaf)]

\* line 250: resource in sorted(self.pdfs)
InPdfs(resource) == Has(pdfs, resource)

\* a tree of the documents only
InVideosNever(resource) == FALSE

\* line 277: resource in sorted(self.videos)
InVideos(resource) == Has(videos, resource)

\* a loop without the list of attached keys
UsedNever(resource, used) == FALSE

\* line 246
Used(resource, used) == resource \in Range(used)

\* lines 234-243
TopicBegin ==
    /\ pc = "topics"
    /\ ti <= Len(topics.keys)
    /\ LET topic == topics.keys[ti] IN
       /\ topic_node' = TopicNode(Replace(topic, " ", "_") \o <<"_", "id">>, topic)
       /\ subtopics' = EmptyDict
       /\ using_subtopics' = UsingSubtopics(topics.val[topic])
    /\ ri' = 1
    /\ pc' = "resources"
    /\ UNCHANGED <<site, error, section, requestvars, crawlvars, poolvars,
                   filevars, gatevars, channel, ti, used_resorces>>

\* lines 244-297: one iteration of the loop over the keys of the topic
AttachResource ==
    /\ pc = "resources"
    /\ ri <= Len(topics.val[topics.keys[ti]])
    /\ LET resource == topics.val[topics.keys[ti]][ri] IN
       IF Used(resource, used_resorces)
       THEN UNCHANGED <<used_resorces, topic_node, subtopics>>
       ELSE /\ used_resorces' = Append(used_resorces, resource)
            /\ IF InPdfs(resource)
               THEN LET obj == pdfs.val[resource]
                        got == GetSubtopicNode(topic_node, subtopics,
                                               using_subtopics, obj)
                    IN  /\ topic_node' =
                              AddChild(got.node, got.at, DocumentNode(resource, obj))
                        /\ subtopics' = got.subs
               ELSE IF InVideos(resource)
               THEN LET obj == videos.val[resource]
                        got == GetSubtopicNode(topic_node, subtopics,
                                               using_subtopics, obj)
                    IN  /\ topic_node' =
                              AddChild(got.node, got.at, VideoNode(resource, obj))
                        /\ subtopics' = got.subs
               ELSE UNCHANGED <<topic_node, subtopics>>
    /\ ri' = ri + 1
    /\ UNCHANGED <<site, pc, error, section, requestvars, crawlvars,
                   poolvars, filevars, gatevars, channel, ti, using_subtopics>>

\* line 299
TopicEnd ==
    /\ pc = "resources"
    /\ ri > Len(topics.val[topics.keys[ti]])
    /\ channel' = Append(channel, topic_node)
    /\ ti' = ti + 1
    /\ pc' = "topics"
    /\ UNCHANGED <<site, error, section, requestvars, crawlvars, poolvars,
                   filevars, gatevars, ri, topic_node, subtopics,
                   using_subtopics, used_resorces>>

\* line 301
ConstructReturn ==
    /\ pc = "topics"
    /\ ti > Len(topics.keys)
    /\ pc' = "done"
    /\ UNCHANGED <<site, error, section, requestvars, crawlvars, poolvars,
                   filevars, gatevars, treevars>>

----------------------------------------------------------------------------
(* The listing pages of the site *)

Grade1 == <<"Grade", " ", "1">>
Grade2 == <<"Grade", " ", "2">>
General == <<"General">>
Term2 == <<"Term", " ", "2">>

\* the sequences over S of length at most n
SeqsUpTo(S, n) == UNION {[1..m -> S] : m \in 0..n}

\* the url of a document
Doc(path) == COURSE_URL \o path

\* the sites whose two pages are made of the given anchors and buttons and
\* whose documents are one of the given choices
SitesOf(anchors, buttons, docs) ==
    {[pages |-> <<p, q>>, docs |-> d] :
        p \in SeqsUpTo(anchors, MaxLinks), q \in SeqsUpTo(buttons, MaxLinks),
        d \in docs}

\* elements that share a url, that share an identity key, and that are excluded
DedupAnchors ==
    {Anchor(<<"/d1", ".", "pdf">>, <<"Book">>, MathsWorkbooks, Grade1, AllTerms),
     Anchor(<<"/d1", ".", "pdf">>, <<"Sums">>, Maths, General, Term2),
     Anchor(<<"/d2", ".", "pdf">>, <<"Book">>, Maths, Grade1, AllTerms),
     Anchor(<<"/d1", ".", "pdf">>, <<"Book">>, <<"Jolly", " ", "Phonics">>,
            Grade1, AllTerms)}

DedupButtons ==
    {Button(Play(<<"/v1", ".", "mp4">>), <<"Clip">>, Maths, Grade1, AllTerms),
     Button(Play(<<"/v1", ".", "mp4">>), <<"Film">>, Maths, General, Term2)}

DedupDocs ==
    {[u \in {Doc(<<"/d1", ".", "pdf">>), Doc(<<"/d2", ".", "pdf">>)}
         |-> Pdf(SIZE_LIMIT)]}

\* one topic with graded and ungraded levels, in documents and in videos
TreeAnchors ==
    {Anchor(<<"/d3", ".", "pdf">>, <<"Clip">>, Maths, Grade1, AllTerms),
     Anchor(<<"/d4", ".", "pdf">>, <<"Sums">>, Maths, Grade2, Term2),
     Anchor(<<"/d5", ".", "pdf">>, <<"Guide">>, Maths, General, Term2),
     Anchor(<<"/d6", ".", "pdf">>, <<"Grade", " ", "R", " ", "Guide">>, Maths,
            General, AllTerms)}

TreeButtons ==
    {Button(Play(<<"/v1", ".", "mp4">>), <<"Clip">>, Maths, Grade1, AllTerms),
     Button(Play(<<"/v2", ".", "mp4">>), <<"Film">>, Maths,
            <<" ", "Grade", " ", "1", " ">>, Term2)}

TreeDocs ==
    {[u \in {Doc(<<"/d3", ".", "pdf">>), Doc(<<"/d4", ".", "pdf">>),
             Doc(<<"/d5", ".", "pdf">>), Doc(<<"/d6", ".", "pdf">>)}
         |-> Pdf(SIZE_LIMIT)]}

\* documents at the size limit, over it, and missing on the server
GateAnchors ==
    {Anchor(<<"/d7", ".", "pdf">>, <<"Atlas">>, Maths, General, AllTerms),
     Anchor(<<"/d8", ".", "pdf">>, <<"Primer">>, Maths, General, AllTerms)}

GateButtons ==
    {Button(Play(<<"/v1", ".", "mp4">>), <<"Clip">>, Maths, Grade1, AllTerms)}

GateDocs ==
    [{Doc(<<"/d7", ".", "pdf">>), Doc(<<"/d8", ".", "pdf">>)} -> Bodies]

\* an element without the attribute a
Without(link, a) == [x \in DOMAIN link \ {a} |-> link[x]]

\* topics with the excluded words, alone and inside a longer title
ExcludedAnchors ==
    {Anchor(<<"/e1", ".", "pdf">>, <<"Plan">>,
            <<"Reading", " ", "Strategy", " ", "2022">>, General, AllTerms),
     Anchor(<<"/e2", ".", "pdf">>, <<"Marks">>, <<"Marksheets">>, Grade1, Term2),
     Anchor(<<"/e3", ".", "pdf">>, <<"Plan">>, <<" ", "Maths", " ">>, General,
            AllTerms)}

ExcludedButtons ==
    {Button(Play(<<"/v3", ".", "mp4">>), <<"Talk">>, <<"Covid", "-", "19">>,
            General, AllTerms)}

ExcludedDocs ==
    {[u \in {Doc(<<"/e1", ".", "pdf">>), Doc(<<"/e2", ".", "pdf">>),
             Doc(<<"/e3", ".", "pdf">>)}
         |-> Pdf(SIZE_LIMIT)]}

\* anchors that lack an attribute or are in another language
MarkupAnchors ==
    {Without(Anchor(<<>>, <<"Leaflet">>, Maths, General, AllTerms), "href"),
     Without(Anchor(<<"/m1", ".", "pdf">>, <<"Notice">>, <<"Covid">>, General,
                    AllTerms), "cat2"),
     [Anchor(<<"/m2", ".", "pdf">>, <<"Gids">>, Maths, General, AllTerms)
          EXCEPT !.cat4 = "AFR"]}

MarkupButtons ==
    {Without(Button(<<>>, <<"Clip">>, Maths, Grade1, AllTerms), "onclick")}

MarkupDocs ==
    {[u \in {Doc(<<"/m1", ".", "pdf">>), Doc(<<"/m2", ".", "pdf">>)}
         |-> Pdf(SIZE_LIMIT)]}

\* the videos of the Reading for Meaning Course among other buttons
CourseButtons ==
    {Button(Play(<<"/v4", ".", "mp4">>), <<"Intro">>, ReadingForMeaning,
            <<"Level", " ", "1">>, AllTerms),
     Button(Play(<<"/v5", ".", "mp4">>), <<"Clip">>, Maths, Grade2, AllTerms),
     Button(Play(<<"/about">>), <<"About">>, Maths, General, AllTerms),
     Button(<<"play()">>, <<"Clip">>, Maths, Grade1, AllTerms)}

CourseDocs == {<<>>}

\* topics and levels that differ in a space, an underscore or a "-" only
SeparatorAnchors ==
    {Anchor(<<"/s1", ".", "pdf">>, <<"Sheet">>, <<"Home", " ", "Work">>,
            General, AllTerms),
     Anchor(<<"/s2", ".", "pdf">>, <<"Sheet">>, <<"Home", "_", "Work">>,
            General, AllTerms),
     Anchor(<<"/s3", ".", "pdf">>, <<"Sheet">>, <<"Home">>,
            <<"Work", "-", "General">>, AllTerms),
     Anchor(<<"/s4", ".", "pdf">>, <<"Sheet">>, <<"Home", "-", "Work">>,
            General, AllTerms)}

SeparatorButtons ==
    {Button(Play(<<"/v6", ".", "mp4">>), <<"Sheet">>, <<"Home", "_", "Work">>,
            General, AllTerms)}

SeparatorDocs ==
    {[u \in {Doc(<<"/s1", ".", "pdf">>), Doc(<<"/s2", ".", "pdf">>),
             Doc(<<"/s3", ".", "pdf">>), Doc(<<"/s4", ".", "pdf">>)}
         |-> Pdf(SIZE_LIMIT)]}

Sites ==
    SitesOf(DedupAnchors, DedupButtons, DedupDocs)
        \cup SitesOf(TreeAnchors, TreeButtons, TreeDocs)
        \cup SitesOf(GateAnchors, GateButtons, GateDocs)
        \cup SitesOf(ExcludedAnchors, ExcludedButtons, ExcludedDocs)
        \cup SitesOf(MarkupAnchors, MarkupButtons, MarkupDocs)
        \cup SitesOf({}, CourseButtons, CourseDocs)
        \cup SitesOf(SeparatorAnchors, SeparatorButtons, SeparatorDocs)

----------------
(* The runs *)

\* a new process: nothing but the files is kept; pre_run, lines 209-210
StartRun ==
    /\ error' = None
    /\ CallCrawl(1)
    /\ links' = <<>>
    /\ li' = 1
    /\ urls' = <<>>
    /\ level' = Unbound
    /\ resources' = EmptyDict
    /\ topics' = EmptyDict
    /\ pdfs' = EmptyDict
    /\ videos' = EmptyDict
    /\ gi' = 1
    /\ fetches' = 0
    /\ transforms' = 0
    /\ copies' = 0
    /\ channel' = <<>>
    /\ ti' = 1
    /\ ri' = 1
    /\ topic_node' = PyNone
    /\ subtopics' = EmptyDict
    /\ using_subtopics' = FALSE
    /\ used_resorces' = <<>>

Init ==
    /\ site \in Sites
    /\ pc = "request"
    /\ error = None
    /\ section = 1
    /\ retry_count = 0
    /\ attempts = 0
    /\ slept = <<>>
    /\ response = PyNone
    /\ result = PyNone
    /\ links = <<>>
    /\ li = 1
    /\ urls = <<>>
    /\ level = Unbound
    /\ resources = EmptyDict
    /\ topics = EmptyDict
    /\ pdfs = EmptyDict
    /\ videos = EmptyDict
    /\ raw = EmptyDict
    /\ compressed = EmptyDict
    /\ gi = 1
    /\ fetches = 0
    /\ transforms = 0
    /\ copies = 0
    /\ channel = <<>>
    /\ ti = 1
    /\ ri = 1
    /\ topic_node = PyNone
    /\ subtopics = EmptyDict
    /\ using_subtopics = FALSE
    /\ used_resorces = <<>>

Ended == pc \in {"done", "crashed", "exited"}

\* the chef is run again, lines 304-311, over the files of the runs before
Restart ==
    /\ Ended
    /\ StartRun
    /\ UNCHANGED <<site, filevars>>

Next ==
    \/ RequestRaises
    \/ RequestResponds
    \/ CrawlPage
    \/ CrawlLink
    \/ CrawlReturn
    \/ GateStep
    \/ GateReturn
    \/ TopicBegin
    \/ AttachResource
    \/ TopicEnd
    \/ ConstructReturn
    \/ Restart

Spec == Init /\ [][Next]_vars

----------------------------------------------------------------------------
(* Properties of the fetcher *)

\* make_request has returned after SESSION.request raised on every attempt
AllAttemptsFailed == pc = "fetched" /\ attempts = retry_count

\* C1: a make_request call whose transport fails on every attempt makes
\* exactly 5 attempts, sleeps n units after the n-th failure, and returns None
\* to its caller; it never makes a sixth attempt.
C1_RetryExhaustion ==
    /\ pc = "request" => attempts = retry_count /\ attempts < 5
    /\ AllAttemptsFailed =>
          /\ attempts = 5
          /\ slept = <<1, 2, 3, 4, 5>>
          /\ result = PyNone
          /\ error = None

C1_Witness == AllAttemptsFailed /\ section = 2

\* an attempt of make_request got a response with a status other than 200
NonSuccess ==
    pc = "fetched" /\ response # PyNone /\ response.status_code # 200

\* C2: a response with a non-success status ends make_request at once: no
\* attempt follows a response, and the call returns None without raising,
\* whatever number of transient failures came before.
C2_NonSuccessIsTerminal ==
    /\ pc = "request" => response = PyNone
    /\ NonSuccess => result = PyNone /\ error = None /\ attempts = retry_count + 1

C2_Witness == NonSuccess /\ retry_count = 4 /\ response.status_code = 404

\* C3: a listing page that could not be fetched is skipped: the run is not
\* aborted by the page that download_page returns as None.
C3_NoResultSkipsSection == ~(pc = "crashed" /\ error = NoFindAll)

----------------------------------------------------------------------------
(* Properties of the extractor *)

\* the positions of links that the loop of crawl has gone through
Processed == 1..(li - 1)

\* the element at position n passes lines 130-136 with the url u
ResolvesTo(n, u) ==
    LET r == ResolveUrl(ElementOf(section), links[n]) IN
    r.error = None /\ r.url = u /\ (ElementOf(section) = "a" \/ ~NotMp4(u))

Least(S) == CHOOSE n \in S : \A m \in S : n <= m

\* the last tokens of s
LastTokens(s, n) == SubSeq(s, Len(s) - n + 1, Len(s))

\* the record r has the fields of the element link
BuiltFrom(r, link) ==
    /\ r.topic = Alias(Strip(link.cat1))
    /\ r.level = Strip(link.cat2)
    /\ r.term = Strip(link.cat3)
    /\ LastTokens(r.name, Len(Strip(link.label))) = Strip(link.label)

\* C4: at every point of a crawl pass, no two records of the mapping have the
\* same url, and a record with the url u has the fields of the first element
\* of the pass that resolves to u.
C4_FirstSeenUrlWins ==
    pc = "links" =>
        \A k \in DOMAIN resources.val :
            LET r == resources.val[k]
                same == {n \in Processed : ResolvesTo(n, r.url)}
            IN  /\ same # {}
                /\ BuiltFrom(r, links[Least(same)])
                /\ \A j \in DOMAIN resources.val :
                       resources.val[j].url = r.url => j = k

\* a pass has returned a record for a url that two different elements had
C4_Witness ==
    /\ pc = "links"
    /\ li > Len(links)
    /\ \E n, m \in Processed :
          /\ n < m
          /\ links[n] # links[m]
          /\ \E k \in DOMAIN resources.val :
                /\ ResolvesTo(n, resources.val[k].url)
                /\ ResolvesTo(m, resources.val[k].url)

\* the element at position n is one that crawl makes a record of: the first of
\* its url, with a topic that is not excluded
Recorded(n) ==
    \E u \in {ResolveUrl(ElementOf(section), links[n]).url} :
        /\ ResolvesTo(n, u)
        /\ \A m \in 1..(n - 1) : ~ResolvesTo(m, u)
        /\ ~Excluded(Strip(links[n].cat1))

\* the identity key of an element whose name crawl leaves as it is
KeyOf(link) ==
    MakeIdx(Alias(Strip(link.cat1)), Strip(link.cat2), Strip(link.cat3),
            Strip(link.label))

PlainName(n) == ~AdjustsName(ElementOf(section), Strip(links[n].cat1))

Occurrences(s, x) == Cardinality({n \in DOMAIN s : s[n] = x})

\* C5: when two recorded elements of a pass have different urls and the same
\* identity key, the record under the key is that of the first of them, and
\* the key is registered once in the group of its topic (a key that the pass
\* before has not registered).
C5_FirstSeenKeyWins ==
    pc = "links" =>
        \A n, m \in Processed :
            (/\ n < m
             /\ Recorded(n) /\ Recorded(m)
             /\ PlainName(n) /\ PlainName(m)
             /\ KeyOf(links[n]) = KeyOf(links[m])
             /\ \A j \in 1..(n - 1) :
                    ~(Recorded(j) /\ PlainName(j) /\ KeyOf(links[j]) = KeyOf(links[n])))
            => LET k == KeyOf(links[n])
                   topic == Alias(Strip(links[n].cat1))
               IN  /\ Has(resources, k)
                   /\ ResolvesTo(n, resources.val[k].url)
                   /\ (section = 1 \/ ~Has(pdfs, k))
                          => Occurrences(topics.val[topic], k) = 1

----------------------------------------------------------------------------
(* Properties of the tree *)

IsLeaf(node) == node.kind # "TopicNode"

\* the children of the topic node t that are subtopic nodes
SubtopicsOf(t) ==
    {c \in DOMAIN channel[t].children : ~IsLeaf(channel[t].children[c])}

\* the leaves right under the topic node t
DirectLeaves(t) ==
    {c \in DOMAIN channel[t].children : IsLeaf(channel[t].children[c])}

\* where the leaves of the tree are: <<t, c, 0>> for the child c of the topic
\* node t, <<t, c, d>> for the child d of its subtopic node c
LeafPaths ==
    UNION {{<<t, c, 0>> : c \in DirectLeaves(t)}
               \cup UNION {{<<t, c, d>> :
                               d \in DOMAIN channel[t].children[c].children} :
                           c \in SubtopicsOf(t)} :
           t \in DOMAIN channel}

LeafAt(p) ==
    IF p[3] = 0 THEN channel[p[1]].children[p[2]]
    ELSE channel[p[1]].children[p[2]].children[p[3]]

\* the record that the tree resolves a key to
RecordOf(key) == IF Has(pdfs, key) THEN pdfs.val[key] ELSE videos.val[key]

\* C6: after construct_channel every identity key is the source id of at most
\* one leaf, and the leaf of a key of both pools is a DocumentNode.
C6_OneLeafPerKey ==
    pc = "done" =>
        /\ \A p, q \in LeafPaths :
               LeafAt(p).source_id = LeafAt(q).source_id => p = q
        /\ \A p \in LeafPaths :
               Has(pdfs, LeafAt(p).source_id) /\ Has(videos, LeafAt(p).source_id)
                   => LeafAt(p).kind = "DocumentNode"

\* a tree with the leaf of a key that both pools have
C6_Witness ==
    /\ pc = "done"
    /\ \E p \in LeafPaths :
          Has(pdfs, LeafAt(p).source_id) /\ Has(videos, LeafAt(p).source_id)

\* the record of the first key registered under the topic of the node t
FirstRecord(t) == RecordOf(topics.val[topics.keys[t]][1])

Graded(obj) == Contains(obj.level, <<"Grade">>)

\* C7: a topic whose first registered resource has a level without "Grade"
\* has no subtopic node, whatever its other resources are.
C7_UngradedFirstNoSubtopics ==
    pc = "done" =>
        \A t \in DOMAIN channel : ~Graded(FirstRecord(t)) => SubtopicsOf(t) = {}

\* C8: in a topic whose first registered resource has a level with "Grade",
\* the leaves right under the topic node have levels without "Grade", the
\* leaves of a subtopic node have the level that is its title, a level with
\* "Grade", and no two subtopic nodes of the topic have the same title.
C8_GradedTopicPlacement ==
    pc = "done" =>
        \A t \in DOMAIN channel :
            Graded(FirstRecord(t)) =>
                /\ \A c \in DirectLeaves(t) :
                       ~Graded(RecordOf(channel[t].children[c].source_id))
                /\ \A c \in SubtopicsOf(t) :
                       \A d \in DOMAIN channel[t].children[c].children :
                           LET leaf == channel[t].children[c].children[d]
                           IN  /\ IsLeaf(leaf)
                               /\ Graded(RecordOf(leaf.source_id))
                               /\ RecordOf(leaf.source_id).level =
                                      channel[t].children[c].title
                /\ \A c, e \in SubtopicsOf(t) :
                       channel[t].children[c].title = channel[t].children[e].title
                           => c = e

\* a graded topic with a leaf of its own and a subtopic node of two leaves
C8_Witness ==
    /\ pc = "done"
    /\ \E t \in DOMAIN channel :
          /\ Graded(FirstRecord(t))
          /\ DirectLeaves(t) # {}
          /\ \E c \in SubtopicsOf(t) : Len(channel[t].children[c].children) = 2

\* the title that the design gives a leaf
TermTitle(obj) ==
    IF obj.term = <<"All">> THEN obj.name
    ELSE obj.term \o <<" ", "-", " ">> \o obj.name

----------------------------------------------------------------------------
(* Properties of the transcode gate *)

\* the gate is at a document whose compressed output is in the cache
AtCachedOutput ==
    /\ pc = "gate"
    /\ gi <= Len(pdfs.keys)
    /\ Has(compressed, pdfs.keys[gi])

\* C10: a step of the gate at a document whose compressed output exists makes
\* no fetch, no call of the transform and no copy, and changes no file.
C10_GateIdempotent ==
    [][AtCachedOutput =>
           UNCHANGED <<raw, compressed, fetches, transforms, copies>>]_vars

\* a later run whose gate has passed a cached document without any operation
C10_Witness ==
    /\ pc = "gate"
    /\ gi > 1
    /\ Has(compressed, pdfs.keys[gi - 1])
    /\ fetches = 0 /\ transforms = 0 /\ copies = 0

\* the gate is at a document that has no compressed output yet
AtNewOutput ==
    /\ pc = "gate"
    /\ gi <= Len(pdfs.keys)
    /\ ~Has(compressed, pdfs.keys[gi])

\* C11: a raw file of exactly SIZE_LIMIT bytes is under the limit: the gate
\* copies it as it is and does not call the transform; a raw file of
\* SIZE_LIMIT + 1 bytes is over the limit and goes through the transform.
C11_SizeBoundary ==
    [][(AtNewOutput /\ pc' # "crashed") =>
           LET k == pdfs.keys[gi]
               file == raw'.val[k]
           IN  IF file.len <= SIZE_LIMIT
               THEN /\ copies' = copies + 1
                    /\ transforms' = transforms
                    /\ compressed'.val[k] = file
               ELSE /\ transforms' = transforms + 1
                    /\ copies' = copies
                    /\ \/ pc' = "exited"
                       \/ compressed'.val[k].body = "compressed pdf"]_vars

\* the gate has copied a file of SIZE_LIMIT bytes and has transformed one of
\* SIZE_LIMIT + 1 bytes
C11_Witness ==
    /\ copies >= 1 /\ transforms >= 1
    /\ \E j, k \in DOMAIN compressed.val :
          /\ raw.val[j].len = SIZE_LIMIT
          /\ compressed.val[j] = raw.val[j]
          /\ raw.val[k].len = SIZE_LIMIT + 1
          /\ compressed.val[k].body = "compressed pdf"

----------------------------------------------------------------------------
(* Properties of the filters of crawl *)

\* the title has one of the four words as a substring
HasExcludedWord(title) ==
    \/ Contains(title, <<"Covid">>)
    \/ Contains(title, <<"Phonics">>)
    \/ Contains(title, <<"Marksheets">>)
    \/ Contains(title, <<"Strategy">>)

\* crawl is at an element whose topic has one of the words
AtExcluded ==
    /\ pc = "links"
    /\ li <= Len(links)
    /\ HasAttr(links[li], "cat1")
    /\ HasExcludedWord(Strip(links[li].cat1))

\* C12: an element whose topic has 'Covid', 'Phonics', 'Marksheets' or
\* 'Strategy' as a substring never gets into the mapping of crawl nor into a
\* topic group, whatever its other fields are and whatever came before it.
C12_ExcludedTopics ==
    /\ [](/\ \A d \in {resources, pdfs, videos} :
               \A k \in DOMAIN d.val : ~HasExcludedWord(d.val[k].topic)
          /\ \A t \in DOMAIN topics.val : ~HasExcludedWord(t))
    /\ [][AtExcluded => UNCHANGED <<resources, topics>>]_vars

\* a pass that has recorded an element and then has gone through an element
\* whose topic holds one of the words inside a longer title
C12_Witness ==
    /\ pc = "links"
    /\ li > Len(links)
    /\ resources.keys # <<>>
    /\ \E n \in Processed :
          /\ n >= 2
          /\ HasAttr(links[n], "cat1")
          /\ HasExcludedWord(Strip(links[n].cat1))
          /\ Len(Strip(links[n].cat1)) > 1

----------------------------------------------------------------------------
(* Properties of the transform *)

\* construct_channel is running or has returned
InTree == pc \in {"topics", "resources", "done"}

\* a document of the pool has a raw file over the limit and no output: doc.save
\* has failed for it
SaveFailed ==
    \E k \in Range(pdfs.keys) :
        /\ Has(raw, k)
        /\ raw.val[k].len > SIZE_LIMIT
        /\ ~Has(compressed, k)

\* C13: a failure of the transform is fatal: the run ends there with the exit
\* status 1, before construct_channel, and no tree is built in a run in which
\* the transform has failed.
C13_TransformFailureIsFatal ==
    /\ [](/\ pc = "exited" =>
               /\ error = "SystemExit: 1"
               /\ SaveFailed
               /\ channel = <<>> /\ topic_node = PyNone
          /\ InTree => ~SaveFailed)
    /\ [][pc = "exited" => pc' = "request" /\ channel' = <<>>]_vars

\* the run has ended at the second document, whose transform has failed
C13_Witness ==
    /\ pc = "exited"
    /\ gi = 2
    /\ transforms >= 1
    /\ ~Has(compressed, pdfs.keys[gi])

----------------------------------------------------------------------------
(* Properties of the names and attributes of crawl *)

\* the element that the record r of the pass was made of: the first of its url
ElementOfRecord(r) == links[Least({n \in Processed : ResolvesTo(n, r.url)})]

\* C14: the name of a record made of a button of the topic 'Reading for
\* Meaning Course' is '<level>: <name>' with the level of that same element,
\* at any position and at the first too; the name of an anchor and of an
\* element of another topic is the label as it is.
C14_OwnLevelInName ==
    /\ error # NoLevel
    /\ pc = "links" =>
           \A k \in DOMAIN resources.val :
               LET r == resources.val[k]
                   link == ElementOfRecord(r)
               IN  r.name =
                       IF /\ ElementOf(section) = "button"
                          /\ Strip(link.cat1) =
                                 <<"Reading", " ", "for", " ", "Meaning", " ", "Course">>
                       THEN Strip(link.cat2) \o <<":", " ">> \o Strip(link.label)
                       ELSE Strip(link.label)

\* the attributes that crawl reads of a matched element
RequiredAttributes(element) ==
    {IF element = "a" THEN "href" ELSE "onclick", "label", "cat1", "cat2", "cat3"}

\* C15: a matched element that lacks href, onclick, data-label, data-cat1,
\* data-cat2 or data-cat3 stops crawl with a failure: the loop never goes past
\* such an element, and no record is made of the value of a missing attribute.
C15_MissingAttributeStops ==
    /\ pc = "links" =>
           \A n \in Processed :
               \A a \in RequiredAttributes(ElementOf(section)) :
                   HasAttr(links[n], a)
    /\ \A d \in {resources, pdfs, videos} :
           \A k \in DOMAIN d.val :
               d.val[k].url # <<"https://fundawande.org", "None">>

----------------------------------------------------------------------------
(* Properties of the files of the gate *)

\* C16: a raw fetch of the gate that fails, by a transport failure or by a
\* response that is not a success, skips the document: the run is not
\* aborted, and neither a raw file nor a compressed output is written for it.
C16_FailedFetchSkipsDocument ==
    /\ ~(pc = "crashed" /\ error = "requests.exceptions.ConnectionError")
    /\ \A files \in {raw, compressed} :
           \A k \in DOMAIN files.val : files.val[k].body # "error page"

\* self.pdfs and self.videos are set: pre_run has got past the two crawls
AfterCrawls == pc \in {"gate", "exited", "topics", "resources", "done"}

\* C17: after pre_run the keys of self.pdfs and the keys of self.videos are
\* disjoint.
C17_PoolsDisjoint ==
    AfterCrawls => DOMAIN pdfs.val \cap DOMAIN videos.val = {}

\* C18: once download_and_compress_pdfs has returned, every key of self.pdfs
\* has a compressed output, and the path of every DocumentNode of the tree is
\* that of an existing compressed file.
C18_EveryDocumentHasOutput ==
    InTree =>
        /\ \A k \in Range(pdfs.keys) : Has(compressed, k)
        /\ \A p \in LeafPaths :
               LeafAt(p).kind = "DocumentNode" =>
                   \E k \in DOMAIN compressed.val :
                       LeafAt(p).path = <<"chefdata/compressed/">> \o k \o <<".pdf">>

\* a tree with the DocumentNodes of two documents, one of them transformed
C18_Witness ==
    /\ pc = "done"
    /\ transforms >= 1
    /\ \E p, q \in LeafPaths :
          /\ p # q
          /\ LeafAt(p).kind = "DocumentNode"
          /\ LeafAt(q).kind = "DocumentNode"

----------------------------------------------------------------------------
(* Properties of the whole tree *)

\* the keys of all the topic groups
Registered == UNION {Range(topics.val[t]) : t \in DOMAIN topics.val}

\* the leaves with the source id key
LeavesOf(key) == {p \in LeafPaths : LeafAt(p).source_id = key}

\* C19: after construct_channel every registered key has exactly one leaf,
\* and the source ids of the leaves are the registered keys.
C19_LeavesAreRegisteredKeys ==
    pc = "done" =>
        /\ \A k \in Registered : Cardinality(LeavesOf(k)) = 1
        /\ {LeafAt(p).source_id : p \in LeafPaths} = Registered

\* a tree with a DocumentNode and a VideoNode, of pools in which a key is
\* registered twice
C19_Witness ==
    /\ pc = "done"
    /\ \E p, q \in LeafPaths :
          LeafAt(p).kind = "DocumentNode" /\ LeafAt(q).kind = "VideoNode"
    /\ \E t \in DOMAIN topics.val :
          \E k \in Range(topics.val[t]) : Occurrences(topics.val[t], k) = 2

\* C20: after construct_channel every leaf is under the TopicNode of the topic
\* of its own record, also when topics or other fields differ in spaces,
\* underscores or '-' only.
C20_LeafUnderOwnTopic ==
    pc = "done" =>
        \A p \in LeafPaths :
            RecordOf(LeafAt(p).source_id).topic = channel[p[1]].title

====
